---- MODULE Spec2Model ----
(***************************************************************************)
(* State-machine model of the nftraffle program                            *)
(* (Solana_Raffle/example-helloworld-master/src/program-rust/src/lib.rs).  *)
(*                                                                         *)
(* The ledger is the NFTRaffle state struct.  Every handler is a pure      *)
(* operator from the ledger and the call's inputs to an outcome            *)
(* [raffle, result, transfer]; the actions apply the handlers and record   *)
(* the call (op, caller, arg), the ledger before it (pre) and its result.  *)
(***************************************************************************)
EXTENDS Integers, Sequences, FiniteSets

(* ------------------------------ bounds -------------------------------- *)

\* Width of the machine word standing for u64 (the program's is 64).
WordBits == 3
\* Largest number of slots player_selector grows to; the vector never holds
\* 2^WordBits keys, so the entry counters themselves do not overflow.
MaxPool == 3
\* Largest number_of_entries of one buy_entry call.
MaxCount == 2
\* Largest lamport balance held by the raffle account.
MaxBalance == 1

(* ----------------------------- value sets ----------------------------- *)

\* Pubkey::default(), the value of nft_address that stands for "no prize"
DefaultPubkey == 0
\* the key new() is given as the owner, and a key that is not the owner's
OwnerKey == 1
StrangerKey == OwnerKey + 1
Pubkeys == {DefaultPubkey, OwnerKey, StrangerKey}
\* the keys that buy entries
Buyers == {OwnerKey, StrangerKey}
\* the keys that call end_raffle, select_winner, change_entry_cost,
\* withdraw_balance and reset_contract
Callers == {OwnerKey, StrangerKey}
Modulus == 2^WordBits
U64Max == Modulus - 1
\* entry costs tried: small ones and ones whose products overflow the word
CostValues == {1, Modulus \div 2}
LamportValues == {0, 2, U64Max}
CountValues == 0..MaxCount
NftIds == {1}
\* values of rand::random::<usize>() tried: they reach every index of the
\* longest player_selector, the last one by wrapping around
RandValues == 0..MaxPool

EmptyMap == [k \in {} |-> 0]

NoTransfer == [kind |-> "none", asset |-> 0, id |-> 0, from |-> 0, to |-> 0, amount |-> 0]

Outcome(r, res, t) == [raffle |-> r, result |-> res, transfer |-> t]

RECURSIVE SumOver(_, _)
SumOver(f, S) ==
    IF S = {} THEN 0
    ELSE LET k == CHOOSE x \in S : TRUE IN f[k] + SumOver(f, S \ {k})

SumValues(f) == SumOver(f, DOMAIN f)

Range(s) == {s[i] : i \in 1..Len(s)}

Contains(s, x) == \E i \in 1..Len(s) : s[i] = x

RECURSIVE Repeat(_, _)
Repeat(x, n) == IF n = 0 THEN <<>> ELSE <<x>> \o Repeat(x, n - 1)

(* ------------------------------ handlers ------------------------------ *)

\* NFTRaffle::new on a zero-initialised account
new(owner, entry_cost) ==
    [owner |-> owner,
     entry_count |-> EmptyMap,
     players |-> <<>>,
     player_selector |-> <<>>,
     raffle_status |-> FALSE,
     entry_cost |-> entry_cost,
     nft_address |-> DefaultPubkey,
     nft_id |-> 0,
     total_entries |-> 0]

\* initialize_raffle with the prize check made before the status check
initialize_raffle_prize_first(r, owner_key, nft_address, nft_id) ==
    IF r.nft_address # DefaultPubkey THEN Outcome(r, "NFTPrizeAlreadySet", NoTransfer)
    ELSE IF r.raffle_status THEN Outcome(r, "RaffleAlreadyStarted", NoTransfer)
    ELSE IF owner_key # nft_address THEN Outcome(r, "OwnerDoesNotOwnNFT", NoTransfer)
    ELSE Outcome([r EXCEPT !.nft_address = nft_address,
                           !.nft_id = nft_id,
                           !.raffle_status = TRUE],
                 "Ok", NoTransfer)

\* initialize_raffle without the check that no prize is set
initialize_raffle_overwrites(r, owner_key, nft_address, nft_id) ==
    IF r.raffle_status THEN Outcome(r, "RaffleAlreadyStarted", NoTransfer)
    ELSE IF owner_key # nft_address THEN Outcome(r, "OwnerDoesNotOwnNFT", NoTransfer)
    ELSE Outcome([r EXCEPT !.nft_address = nft_address,
                           !.nft_id = nft_id,
                           !.raffle_status = TRUE],
                 "Ok", NoTransfer)

\* owner_key is ctx.accounts.owner.key, the account the caller passes in
initialize_raffle(r, owner_key, nft_address, nft_id) ==
    IF r.raffle_status THEN Outcome(r, "RaffleAlreadyStarted", NoTransfer)
    ELSE IF r.nft_address # DefaultPubkey THEN Outcome(r, "NFTPrizeAlreadySet", NoTransfer)
    ELSE IF owner_key # nft_address THEN Outcome(r, "OwnerDoesNotOwnNFT", NoTransfer)
    ELSE Outcome([r EXCEPT !.nft_address = nft_address,
                           !.nft_id = nft_id,
                           !.raffle_status = TRUE],
                 "Ok", NoTransfer)

\* entry_count.entry(player).or_insert(0)
or_insert_zero(m, k) ==
    [x \in DOMAIN m \cup {k} |-> IF x \in DOMAIN m THEN m[x] ELSE 0]

\* entry_cost * number_of_entries on u64: with overflow checks the product
\* panics when it does not fit, without them it wraps.
required_amount(entry_cost, number_of_entries) ==
    (entry_cost * number_of_entries) % Modulus

mul_overflows(entry_cost, number_of_entries) ==
    entry_cost * number_of_entries > U64Max

\* buy_entry that counts one entry per call in total_entries
buy_entry_total_by_one(r, player, lamports, number_of_entries, overflow_checks) ==
    IF ~r.raffle_status THEN Outcome(r, "RaffleNotStarted", NoTransfer)
    ELSE IF overflow_checks /\ mul_overflows(r.entry_cost, number_of_entries)
         THEN Outcome(r, "Panic", NoTransfer)
    ELSE IF lamports < required_amount(r.entry_cost, number_of_entries)
         THEN Outcome(r, "InsufficientFunds", NoTransfer)
    ELSE LET ec == or_insert_zero(r.entry_count, player)
         IN Outcome([r EXCEPT
                !.entry_count = [ec EXCEPT ![player] = (@ + number_of_entries) % Modulus],
                !.total_entries = (@ + 1) % Modulus,
                !.players = IF Contains(@, player) THEN @ ELSE Append(@, player),
                !.player_selector = @ \o Repeat(player, number_of_entries)],
              "Ok", NoTransfer)

\* buy_entry that creates the player's entry before it checks the funds
buy_entry_insert_first(r, player, lamports, number_of_entries, overflow_checks) ==
    IF ~r.raffle_status THEN Outcome(r, "RaffleNotStarted", NoTransfer)
    ELSE IF overflow_checks /\ mul_overflows(r.entry_cost, number_of_entries)
         THEN Outcome(r, "Panic", NoTransfer)
    ELSE LET ec == or_insert_zero(r.entry_count, player) IN
         IF lamports < required_amount(r.entry_cost, number_of_entries)
         THEN Outcome([r EXCEPT !.entry_count = ec], "InsufficientFunds", NoTransfer)
         ELSE Outcome([r EXCEPT
                !.entry_count = [ec EXCEPT ![player] = (@ + number_of_entries) % Modulus],
                !.total_entries = (@ + number_of_entries) % Modulus,
                !.players = IF Contains(@, player) THEN @ ELSE Append(@, player),
                !.player_selector = @ \o Repeat(player, number_of_entries)],
              "Ok", NoTransfer)

\* buy_entry that pushes one slot whatever number_of_entries is
buy_entry_one_slot(r, player, lamports, number_of_entries, overflow_checks) ==
    IF ~r.raffle_status THEN Outcome(r, "RaffleNotStarted", NoTransfer)
    ELSE IF overflow_checks /\ mul_overflows(r.entry_cost, number_of_entries)
         THEN Outcome(r, "Panic", NoTransfer)
    ELSE IF lamports < required_amount(r.entry_cost, number_of_entries)
         THEN Outcome(r, "InsufficientFunds", NoTransfer)
    ELSE LET ec == or_insert_zero(r.entry_count, player)
         IN Outcome([r EXCEPT
                !.entry_count = [ec EXCEPT ![player] = (@ + number_of_entries) % Modulus],
                !.total_entries = (@ + number_of_entries) % Modulus,
                !.players = IF Contains(@, player) THEN @ ELSE Append(@, player),
                !.player_selector = Append(@, player)],
              "Ok", NoTransfer)

buy_entry(r, player, lamports, number_of_entries, overflow_checks) ==
    IF ~r.raffle_status THEN Outcome(r, "RaffleNotStarted", NoTransfer)
    ELSE IF overflow_checks /\ mul_overflows(r.entry_cost, number_of_entries)
         THEN Outcome(r, "Panic", NoTransfer)
    ELSE IF lamports < required_amount(r.entry_cost, number_of_entries)
         THEN Outcome(r, "InsufficientFunds", NoTransfer)
    ELSE LET ec == or_insert_zero(r.entry_count, player)
         IN Outcome([r EXCEPT
                !.entry_count = [ec EXCEPT ![player] = (@ + number_of_entries) % Modulus],
                !.total_entries = (@ + number_of_entries) % Modulus,
                !.players = IF Contains(@, player) THEN @ ELSE Append(@, player),
                !.player_selector = @ \o Repeat(player, number_of_entries)],
              "Ok", NoTransfer)

\* end_raffle that also drops the round's entries
end_raffle_wipes(r) ==
    IF ~r.raffle_status THEN Outcome(r, "RaffleNotStarted", NoTransfer)
    ELSE Outcome([r EXCEPT !.raffle_status = FALSE,
                           !.entry_count = EmptyMap,
                           !.players = <<>>,
                           !.player_selector = <<>>,
                           !.total_entries = 0],
                 "Ok", NoTransfer)

end_raffle(r) ==
    IF ~r.raffle_status THEN Outcome(r, "RaffleNotStarted", NoTransfer)
    ELSE Outcome([r EXCEPT !.raffle_status = FALSE], "Ok", NoTransfer)

winner_index(rnd, len) == rnd % len

\* the clears without players.clear()
cleared_round_keeps_players(r) ==
    [r EXCEPT !.entry_count = EmptyMap,
              !.player_selector = <<>>,
              !.nft_address = DefaultPubkey,
              !.nft_id = 0,
              !.total_entries = 0]

\* the clears without the reset of nft_address and nft_id
cleared_round_keeps_prize(r) ==
    [r EXCEPT !.entry_count = EmptyMap,
              !.players = <<>>,
              !.player_selector = <<>>,
              !.total_entries = 0]

\* the ledger after the clears of lines 115-120
cleared_round(r) ==
    [r EXCEPT !.entry_count = EmptyMap,
              !.players = <<>>,
              !.player_selector = <<>>,
              !.nft_address = DefaultPubkey,
              !.nft_id = 0,
              !.total_entries = 0]

\* select_winner that clears the round before it looks at the transfer's result
select_winner_clears_first(r, rnd, transfer_ok) ==
    IF r.raffle_status THEN Outcome(r, "RaffleStillRunning", NoTransfer)
    ELSE IF r.player_selector = <<>> THEN Outcome(r, "NoPlayerInRaffle", NoTransfer)
    ELSE IF r.nft_address = DefaultPubkey THEN Outcome(r, "NFTPrizeNotSet", NoTransfer)
    ELSE LET winner == r.player_selector[winner_index(rnd, Len(r.player_selector)) + 1]
         IN IF ~transfer_ok THEN Outcome(cleared_round(r), "TransferFailed", NoTransfer)
            ELSE Outcome(cleared_round(r), "Ok",
                         [kind |-> "nft", asset |-> r.nft_address, id |-> r.nft_id,
                          from |-> r.owner, to |-> winner, amount |-> 0])

\* select_winner that draws from players instead of player_selector
select_winner_from_players(r, rnd, transfer_ok) ==
    IF r.raffle_status THEN Outcome(r, "RaffleStillRunning", NoTransfer)
    ELSE IF r.player_selector = <<>> THEN Outcome(r, "NoPlayerInRaffle", NoTransfer)
    ELSE IF r.nft_address = DefaultPubkey THEN Outcome(r, "NFTPrizeNotSet", NoTransfer)
    ELSE LET winner == r.players[winner_index(rnd, Len(r.players)) + 1]
         IN IF ~transfer_ok THEN Outcome(r, "TransferFailed", NoTransfer)
            ELSE Outcome(cleared_round(r), "Ok",
                         [kind |-> "nft", asset |-> r.nft_address, id |-> r.nft_id,
                          from |-> r.owner, to |-> winner, amount |-> 0])

\* select_winner without the check of raffle_status
select_winner_while_running(r, rnd, transfer_ok) ==
    IF r.player_selector = <<>> THEN Outcome(r, "NoPlayerInRaffle", NoTransfer)
    ELSE IF r.nft_address = DefaultPubkey THEN Outcome(r, "NFTPrizeNotSet", NoTransfer)
    ELSE LET winner == r.player_selector[winner_index(rnd, Len(r.player_selector)) + 1]
         IN IF ~transfer_ok THEN Outcome(r, "TransferFailed", NoTransfer)
            ELSE Outcome(cleared_round(r), "Ok",
                         [kind |-> "nft", asset |-> r.nft_address, id |-> r.nft_id,
                          from |-> r.owner, to |-> winner, amount |-> 0])

\* select_winner that transfers the prize and clears nothing
select_winner_keeps_round(r, rnd, transfer_ok) ==
    IF r.raffle_status THEN Outcome(r, "RaffleStillRunning", NoTransfer)
    ELSE IF r.player_selector = <<>> THEN Outcome(r, "NoPlayerInRaffle", NoTransfer)
    ELSE IF r.nft_address = DefaultPubkey THEN Outcome(r, "NFTPrizeNotSet", NoTransfer)
    ELSE LET winner == r.player_selector[winner_index(rnd, Len(r.player_selector)) + 1]
         IN IF ~transfer_ok THEN Outcome(r, "TransferFailed", NoTransfer)
            ELSE Outcome(r, "Ok",
                         [kind |-> "nft", asset |-> r.nft_address, id |-> r.nft_id,
                          from |-> r.owner, to |-> winner, amount |-> 0])

\* rnd is the value of rand::random, transfer_ok whether the transfer of
\* line 113 returned Ok
select_winner(r, rnd, transfer_ok) ==
    IF r.raffle_status THEN Outcome(r, "RaffleStillRunning", NoTransfer)
    ELSE IF r.player_selector = <<>> THEN Outcome(r, "NoPlayerInRaffle", NoTransfer)
    ELSE IF r.nft_address = DefaultPubkey THEN Outcome(r, "NFTPrizeNotSet", NoTransfer)
    ELSE LET winner == r.player_selector[winner_index(rnd, Len(r.player_selector)) + 1]
         IN IF ~transfer_ok THEN Outcome(r, "TransferFailed", NoTransfer)
            ELSE Outcome(cleared_round(r), "Ok",
                         [kind |-> "nft", asset |-> r.nft_address, id |-> r.nft_id,
                          from |-> r.owner, to |-> winner, amount |-> 0])

\* change_entry_cost without the check of raffle_status
change_entry_cost_any_time(r, new_entry_cost) ==
    Outcome([r EXCEPT !.entry_cost = new_entry_cost], "Ok", NoTransfer)

change_entry_cost(r, new_entry_cost) ==
    IF r.raffle_status THEN Outcome(r, "RaffleInProgress", NoTransfer)
    ELSE Outcome([r EXCEPT !.entry_cost = new_entry_cost], "Ok", NoTransfer)

\* withdraw_balance without the check for an empty balance
withdraw_balance_unchecked(r, bal, borrow_ok) ==
    IF ~borrow_ok THEN Outcome(r, "AccountBorrowFailed", NoTransfer)
    ELSE Outcome(r, "Ok",
                 [kind |-> "lamports", asset |-> 0, id |-> 0,
                  from |-> 0, to |-> r.owner, amount |-> bal])

\* bal is raffle.balance(), borrow_ok whether try_account_ref_mut returned Ok
withdraw_balance(r, bal, borrow_ok) ==
    IF bal = 0 THEN Outcome(r, "NoBalanceToWithdraw", NoTransfer)
    ELSE IF ~borrow_ok THEN Outcome(r, "AccountBorrowFailed", NoTransfer)
    ELSE Outcome(r, "Ok",
                 [kind |-> "lamports", asset |-> 0, id |-> 0,
                  from |-> 0, to |-> r.owner, amount |-> bal])

\* reset_contract that leaves raffle_status as it is
reset_contract_keeps_status(r) ==
    Outcome([r EXCEPT !.entry_count = EmptyMap,
                      !.players = <<>>,
                      !.player_selector = <<>>,
                      !.nft_address = DefaultPubkey,
                      !.nft_id = 0,
                      !.entry_cost = 0,
                      !.total_entries = 0],
            "Ok", NoTransfer)

reset_contract(r) ==
    Outcome([r EXCEPT !.entry_count = EmptyMap,
                      !.players = <<>>,
                      !.player_selector = <<>>,
                      !.raffle_status = FALSE,
                      !.nft_address = DefaultPubkey,
                      !.nft_id = 0,
                      !.entry_cost = 0,
                      !.total_entries = 0],
            "Ok", NoTransfer)

(* ------------------------------- state -------------------------------- *)

VARIABLES
    raffle,          \* the NFTRaffle state account
    balance,         \* lamports held by the raffle account: raffle.balance()
    pre,             \* the ledger before the last call
    op,              \* the last handler called
    caller,          \* the identity that made the last call
    arg,             \* the payer's lamports and number_of_entries of the last call
    result,          \* what the last call returned
    transfer,        \* the transfer the last call made
    closedPool,      \* player_selector at the last end_raffle or reset,
                     \* Open once an entry was accepted after it
    assigned         \* whether initialize_raffle has succeeded since the last
                     \* successful select_winner (or since new)

vars == <<raffle, balance, pre,
          op, caller, arg, result, transfer, closedPool, assigned>>

NoArg == [lamports |-> 0, count |-> 0]

Open == <<-1>>

Init ==
    /\ \E c \in CostValues : raffle = new(OwnerKey, c)
    /\ balance = 0
    /\ pre = raffle
    /\ op = "new"
    /\ caller = raffle.owner
    /\ arg = NoArg
    /\ result = "Ok"
    /\ transfer = NoTransfer
    /\ closedPool = Open
    /\ assigned = FALSE

\* the bookkeeping every call shares: out is the handler's outcome
Call(name, who, a, out) ==
    /\ raffle' = out.raffle
    /\ pre' = raffle
    /\ op' = name
    /\ caller' = who
    /\ arg' = a
    /\ result' = out.result
    /\ transfer' = out.transfer

InitializeRaffle ==
    \E who \in Pubkeys, a \in Pubkeys, id \in NftIds :
        LET out == initialize_raffle(raffle, who, a, id) IN
        /\ Call("initialize_raffle", who, NoArg, out)
        /\ assigned' = (assigned \/ out.result = "Ok")
        /\ UNCHANGED <<balance, closedPool>>

BuyEntry ==
    \E p \in Buyers, l \in LamportValues, n \in CountValues, oc \in BOOLEAN :
        LET out == buy_entry(raffle, p, l, n, oc) IN
        /\ (oc => mul_overflows(raffle.entry_cost, n))
        /\ Len(raffle.player_selector) + n <= MaxPool
        /\ Call("buy_entry", p,
                [lamports |-> l, count |-> n], out)
        /\ closedPool' = IF out.result = "Ok" THEN Open ELSE closedPool
        /\ UNCHANGED <<balance, assigned>>

EndRaffle ==
    \E who \in Callers :
        LET out == end_raffle(raffle) IN
        /\ Call("end_raffle", who, NoArg, out)
        /\ closedPool' = IF out.result = "Ok" THEN raffle.player_selector ELSE closedPool
        /\ UNCHANGED <<balance, assigned>>

SelectWinner ==
    \E who \in Callers, rnd \in RandValues, ok \in BOOLEAN :
        LET out == select_winner(raffle, rnd, ok) IN
        /\ Call("select_winner", who, NoArg, out)
        /\ assigned' = (assigned /\ out.result # "Ok")
        /\ UNCHANGED <<balance, closedPool>>

ChangeEntryCost ==
    \E who \in Callers, c \in CostValues :
        /\ Call("change_entry_cost", who, NoArg,
                change_entry_cost(raffle, c))
        /\ UNCHANGED <<balance, closedPool, assigned>>

WithdrawBalance ==
    \E who \in Callers, ok \in BOOLEAN :
        /\ Call("withdraw_balance", who, NoArg,
                withdraw_balance(raffle, balance, ok))
        /\ UNCHANGED <<balance, closedPool, assigned>>

ResetContract ==
    \E who \in Callers :
        /\ Call("reset_contract", who, NoArg, reset_contract(raffle))
        /\ closedPool' = <<>>
        /\ UNCHANGED <<balance, assigned>>

\* the custody layer moves an accepted payment into the raffle account
Deposit ==
    \E amt \in 1..MaxBalance :
        /\ balance + amt <= MaxBalance
        /\ balance' = balance + amt
        /\ Call("deposit", DefaultPubkey, NoArg, Outcome(raffle, "Ok", NoTransfer))
        /\ UNCHANGED <<closedPool, assigned>>

Next ==
    \/ InitializeRaffle
    \/ BuyEntry
    \/ EndRaffle
    \/ SelectWinner
    \/ ChangeEntryCost
    \/ WithdrawBalance
    \/ ResetContract
    \/ Deposit

Spec == Init /\ [][Next]_vars

(* ------------------------------- claims ------------------------------- *)

\* C1: in every reachable state total_entries equals the sum of the
\* entry_count values and the length of player_selector.
C1_TotalEntriesAgree ==
    /\ raffle.total_entries = SumValues(raffle.entry_count)
    /\ raffle.total_entries = Len(raffle.player_selector)

\* two players hold entries after an accepted purchase of several
C1_Witness ==
    /\ op = "buy_entry" /\ result = "Ok" /\ arg.count = MaxCount
    /\ raffle.total_entries > MaxCount
    /\ Cardinality({p \in DOMAIN raffle.entry_count : raffle.entry_count[p] > 0}) = 2

\* C2 (as claimed): every key in player_selector is in players, and every
\* key in players has an entry_count above zero.
C2_ParticipantsHoldEntries ==
    /\ \A p \in Range(raffle.player_selector) : Contains(raffle.players, p)
    /\ \A p \in Range(raffle.players) :
          p \in DOMAIN raffle.entry_count /\ raffle.entry_count[p] > 0

AdminOps == {"end_raffle", "select_winner", "change_entry_cost",
             "withdraw_balance", "reset_contract"}

\* C3 (as claimed): end_raffle, select_winner, change_entry_cost,
\* withdraw_balance and reset_contract called by a key that is not the
\* owner's fail NotAuthority, change no field and make no transfer.
C3_StrangerIsRejected ==
    (op \in AdminOps /\ caller # pre.owner) =>
        (result = "NotAuthority" /\ raffle = pre /\ transfer = NoTransfer)

\* C4: a call that returns an error leaves every field of the ledger as it
\* was before the call.
C4_ErrorLeavesLedger ==
    result # "Ok" => raffle = pre

\* a purchase is refused for lack of funds on a ledger that holds entries
C4_Witness ==
    /\ op = "buy_entry" /\ result = "InsufficientFunds"
    /\ caller \notin DOMAIN pre.entry_count
    /\ pre.player_selector # <<>>

\* C5: right after a successful select_winner entry_count, players and
\* player_selector are empty, the prize is unset, total_entries is 0 and
\* raffle_status is false.
C5_DrawClearsRound ==
    (op = "select_winner" /\ result = "Ok") =>
        /\ DOMAIN raffle.entry_count = {}
        /\ raffle.players = <<>>
        /\ raffle.player_selector = <<>>
        /\ raffle.nft_address = DefaultPubkey
        /\ raffle.nft_id = 0
        /\ raffle.total_entries = 0
        /\ ~raffle.raffle_status

\* a draw succeeded on a pool of two players
C5_Witness ==
    /\ op = "select_winner" /\ result = "Ok"
    /\ Len(pre.players) = 2 /\ Len(pre.player_selector) >= 2
    /\ pre.nft_address # DefaultPubkey

\* the checks select_winner makes before it draws
LocalChecksPass(r) ==
    /\ ~r.raffle_status
    /\ r.player_selector # <<>>
    /\ r.nft_address # DefaultPubkey

\* C6: when select_winner passes its own checks and the prize transfer fails,
\* the call returns an error, the ledger keeps its closed pre-draw state, and
\* a select_winner on that state succeeds once the transfer does.
C6_FailedTransferKeepsRound ==
    (op = "select_winner" /\ LocalChecksPass(pre) /\ transfer = NoTransfer) =>
        /\ result = "TransferFailed"
        /\ raffle = pre
        /\ ~raffle.raffle_status
        /\ \A rnd \in RandValues : select_winner(raffle, rnd, TRUE).result = "Ok"

\* the transfer of a draw on a pool of two players failed
C6_Witness ==
    /\ op = "select_winner" /\ result = "TransferFailed"
    /\ Len(raffle.players) = 2 /\ raffle.total_entries >= 2

\* C7: the key a successful select_winner transfers the prize to is in the
\* player_selector of before the call and has an entry_count above zero
\* there, and every slot of that player_selector wins for some random value.
C7_WinnerHoldsTicket ==
    (op = "select_winner" /\ result = "Ok") =>
        /\ transfer.kind = "nft"
        /\ transfer.to \in Range(pre.player_selector)
        /\ transfer.to \in DOMAIN pre.entry_count
        /\ pre.entry_count[transfer.to] > 0
        /\ \A i \in 1..Len(pre.player_selector) :
              \E rnd \in RandValues :
                  select_winner(pre, rnd, TRUE).transfer.to = pre.player_selector[i]

\* the winner is drawn while a player without any entry is in players
C7_Witness ==
    /\ op = "select_winner" /\ result = "Ok"
    /\ \E p \in DOMAIN pre.entry_count : pre.entry_count[p] = 0
    /\ transfer.to \in Range(pre.player_selector)

\* C8: select_winner fails RaffleStillRunning while raffle_status is true, and
\* a successful select_winner draws from the player_selector as it was at the
\* last successful end_raffle, with no accepted buy_entry since.
C8_DrawOnClosedPool ==
    /\ (op = "select_winner" /\ pre.raffle_status) => result = "RaffleStillRunning"
    /\ (op = "select_winner" /\ result = "Ok") =>
          (closedPool # Open /\ closedPool = pre.player_selector)

\* a draw succeeded on the pool that end_raffle closed
C8_Witness ==
    /\ op = "select_winner" /\ result = "Ok"
    /\ closedPool = pre.player_selector /\ Len(closedPool) = MaxPool

\* C9: buy_entry fails RaffleNotStarted whenever raffle_status is false, and
\* initialize_raffle fails RaffleAlreadyStarted whenever it is true.
C9_StatusGuards ==
    /\ (op = "buy_entry" /\ ~pre.raffle_status) => result = "RaffleNotStarted"
    /\ (op = "initialize_raffle" /\ pre.raffle_status) => result = "RaffleAlreadyStarted"

\* a prize is assigned to a running raffle whose prize is set
C9_Witness ==
    /\ op = "initialize_raffle" /\ pre.raffle_status
    /\ pre.nft_address # DefaultPubkey
    /\ result = "RaffleAlreadyStarted"

\* C10 (as claimed): buy_entry on a running raffle is accepted exactly when
\* the payer's lamports are at least the unbounded product of entry_cost and
\* number_of_entries, and fails InsufficientFunds otherwise.
C10_FundsCoverTrueCost ==
    (op = "buy_entry" /\ pre.raffle_status) =>
        /\ result = "Ok" <=> arg.lamports >= pre.entry_cost * arg.count
        /\ result # "Ok" => result = "InsufficientFunds"

\* C11 (as claimed): a call made while raffle_status is true leaves
\* entry_cost as it was, and change_entry_cost then fails RaffleInProgress.
C11_CostFixedWhileRunning ==
    pre.raffle_status =>
        /\ raffle.entry_cost = pre.entry_cost
        /\ op = "change_entry_cost" => result = "RaffleInProgress"

\* C11 (amended): a call other than reset_contract made while raffle_status is
\* true leaves entry_cost as it was, change_entry_cost then fails
\* RaffleInProgress, and reset_contract sets entry_cost to 0 in every state.
C11_CostFixedUnlessReset ==
    /\ (pre.raffle_status /\ op # "reset_contract") =>
          raffle.entry_cost = pre.entry_cost
    /\ (pre.raffle_status /\ op = "change_entry_cost") =>
          (result = "RaffleInProgress" /\ raffle = pre)
    /\ op = "reset_contract" => raffle.entry_cost = 0

\* change_entry_cost is refused on a running raffle that holds entries
C11_Witness ==
    /\ op = "change_entry_cost" /\ pre.raffle_status
    /\ result = "RaffleInProgress"
    /\ pre.entry_cost > 0 /\ pre.player_selector # <<>>

\* C12: reset_contract called by the owner succeeds in every state and leaves
\* the ledger as new makes it for the same owner: raffle_status false, the
\* three collections empty, the prize unset and total_entries 0.
C12_ResetIsFresh ==
    (op = "reset_contract" /\ caller = pre.owner) =>
        /\ result = "Ok"
        /\ raffle = new(pre.owner, 0)
        /\ raffle.owner = pre.owner
        /\ ~raffle.raffle_status
        /\ DOMAIN raffle.entry_count = {}
        /\ raffle.players = <<>>
        /\ raffle.player_selector = <<>>
        /\ raffle.nft_address = DefaultPubkey
        /\ raffle.total_entries = 0

\* the owner resets a running raffle that holds a prize and entries
C12_Witness ==
    /\ op = "reset_contract" /\ caller = pre.owner /\ result = "Ok"
    /\ pre.raffle_status
    /\ pre.nft_address # DefaultPubkey
    /\ Len(pre.players) = 2

\* C13 (as claimed): while raffle_status is true the prize is set, that is
\* nft_address differs from Pubkey::default().
C13_RunningHasPrize ==
    raffle.raffle_status => raffle.nft_address # DefaultPubkey

\* C14: right after a successful select_winner, initialize_raffle by the key
\* that equals the asset's address succeeds, and buy_entry with enough
\* lamports is then accepted with the buyer's entry_count counted from zero.
C14_NextRoundStarts ==
    (op = "select_winner" /\ result = "Ok") =>
        \A a \in Pubkeys, id \in NftIds :
            LET started == initialize_raffle(raffle, a, a, id) IN
            /\ started.result = "Ok"
            /\ \A p \in Buyers, n \in CountValues :
                  LET bought == buy_entry(started.raffle, p, U64Max, n, TRUE) IN
                  ~mul_overflows(raffle.entry_cost, n) =>
                      /\ bought.result = "Ok"
                      /\ bought.raffle.entry_count[p] = n
                      /\ Len(bought.raffle.player_selector) = n

\* a prize is assigned after a draw has paid out the round end_raffle closed
C14_Witness ==
    /\ op = "initialize_raffle" /\ result = "Ok"
    /\ closedPool # Open /\ closedPool # <<>>
    /\ raffle.player_selector = <<>>
    /\ raffle.nft_address # DefaultPubkey

\* C15: a successful initialize_raffle changes only the prize and
\* raffle_status, a successful end_raffle only raffle_status and a successful
\* change_entry_cost only entry_cost.
C15_FrameOfLifecycleCalls ==
    /\ (op = "initialize_raffle" /\ result = "Ok") =>
          pre = [raffle EXCEPT !.nft_address = pre.nft_address,
                               !.nft_id = pre.nft_id,
                               !.raffle_status = pre.raffle_status]
    /\ (op = "end_raffle" /\ result = "Ok") =>
          pre = [raffle EXCEPT !.raffle_status = pre.raffle_status]
    /\ (op = "change_entry_cost" /\ result = "Ok") =>
          pre = [raffle EXCEPT !.entry_cost = pre.entry_cost]

\* end_raffle closes a round that holds entries of two players
C15_Witness ==
    /\ op = "end_raffle" /\ result = "Ok"
    /\ Len(pre.players) = 2 /\ pre.total_entries >= 2
    /\ ~raffle.raffle_status

\* C16: withdraw_balance fails NoBalanceToWithdraw whenever the raffle's
\* balance is zero, and then credits nothing to the owner.
C16_NothingToWithdraw ==
    (op = "withdraw_balance" /\ balance = 0) =>
        /\ result = "NoBalanceToWithdraw"
        /\ transfer = NoTransfer
        /\ raffle = pre

\* withdraw_balance is called on a ledger as new made it
C16_Witness ==
    /\ op = "withdraw_balance" /\ balance = 0
    /\ result = "NoBalanceToWithdraw"
    /\ \E c \in CostValues : pre = new(OwnerKey, c)
    /\ ~assigned

\* entry_count of a key, 0 when the key has no entry
Entries(r, p) == IF p \in DOMAIN r.entry_count THEN r.entry_count[p] ELSE 0

\* the number of slots of player_selector that hold a key
Slots(r, p) == Cardinality({i \in 1..Len(r.player_selector) : r.player_selector[i] = p})

\* C17: for every key the number of its slots in player_selector equals its
\* entry_count, and a successful buy_entry raises both by number_of_entries
\* for the buyer and leaves them for every other key.
C17_OneEntryOneSlot ==
    /\ \A p \in Pubkeys : Slots(raffle, p) = Entries(raffle, p)
    /\ (op = "buy_entry" /\ result = "Ok") =>
          \A p \in Pubkeys :
              /\ Entries(raffle, p) = Entries(pre, p) + (IF p = caller THEN arg.count ELSE 0)
              /\ Slots(raffle, p) = Slots(pre, p) + (IF p = caller THEN arg.count ELSE 0)

\* a player adds several entries to a pool that holds another player's
C17_Witness ==
    /\ op = "buy_entry" /\ result = "Ok" /\ arg.count = MaxCount
    /\ \E q \in Pubkeys \ {caller} : Slots(pre, q) > 0
    /\ Slots(raffle, caller) = MaxCount

\* C18: a successful select_winner is preceded, since the successful
\* select_winner before it, by a successful initialize_raffle, and a
\* select_winner right after a successful one fails.
C18_PrizePaidOnce ==
    [][ /\ (op' = "select_winner" /\ result' = "Ok") => assigned
        /\ (op = "select_winner" /\ result = "Ok" /\ op' = "select_winner") =>
              result' # "Ok" ]_vars

\* a draw is refused right after a draw that paid out
C18_Witness ==
    /\ op = "select_winner" /\ result = "NoPlayerInRaffle"
    /\ closedPool # Open /\ closedPool # <<>>
    /\ ~assigned /\ raffle.nft_address = DefaultPubkey

\* Number of calls before the draw that CanDraw tries.
DrawDepth == 2

\* whether a successful select_winner is reached from ledger r by at most k
\* successful calls of end_raffle, buy_entry, initialize_raffle and
\* change_entry_cost followed by select_winner
RECURSIVE CanDraw(_, _)
CanDraw(r, k) ==
    \/ \E rnd \in RandValues : select_winner(r, rnd, TRUE).result = "Ok"
    \/ /\ k > 0
       /\ \/ LET out == end_raffle(r) IN
                out.result = "Ok" /\ CanDraw(out.raffle, k - 1)
          \/ \E p \in Buyers, l \in LamportValues, n \in CountValues, oc \in BOOLEAN :
                LET out == buy_entry(r, p, l, n, oc) IN
                /\ (oc => mul_overflows(r.entry_cost, n))
                /\ Len(r.player_selector) + n <= MaxPool
                /\ out.result = "Ok"
                /\ CanDraw(out.raffle, k - 1)
          \/ \E who \in Pubkeys, a \in Pubkeys, id \in NftIds :
                LET out == initialize_raffle(r, who, a, id) IN
                out.result = "Ok" /\ CanDraw(out.raffle, k - 1)
          \/ \E c \in CostValues :
                LET out == change_entry_cost(r, c) IN
                out.result = "Ok" /\ CanDraw(out.raffle, k - 1)

\* a closed round that holds a prize and no entry
Stuck(r) ==
    /\ ~r.raffle_status
    /\ r.player_selector = <<>>
    /\ r.nft_address # DefaultPubkey

\* C19 (as claimed): from every reachable state in which a prize is set a
\* successful select_winner is reached without reset_contract.
C19_DrawReachable ==
    raffle.nft_address # DefaultPubkey => CanDraw(raffle, DrawDepth)

\* C19 (amended): from every reachable state in which a prize is set and the
\* raffle is running or holds an entry a successful select_winner is reached
\* without reset_contract; a closed round with a prize and no entry stays as
\* it is under every call but reset_contract, and no draw succeeds on it.
C19_DrawReachableUnlessEmpty ==
    /\ (raffle.nft_address # DefaultPubkey
          /\ (raffle.raffle_status \/ raffle.player_selector # <<>>)) =>
          CanDraw(raffle, DrawDepth)
    /\ Stuck(raffle) => ~CanDraw(raffle, DrawDepth)
    /\ (Stuck(pre) /\ op \notin {"new", "reset_contract"}) =>
          (Stuck(raffle) /\ ~(op = "select_winner" /\ result = "Ok"))

\* a prize is assigned to the closed round without entries, and refused
C19_Witness ==
    /\ Stuck(pre) /\ Stuck(raffle)
    /\ op = "initialize_raffle" /\ result = "NFTPrizeAlreadySet"
    /\ closedPool = <<>> /\ assigned

\* C20 (as claimed): a successful withdraw_balance credits the owner with the
\* raffle's balance and leaves that balance at zero.
C20_WithdrawEmptiesBalance ==
    (op = "withdraw_balance" /\ result = "Ok") =>
        /\ transfer.kind = "lamports"
        /\ transfer.to = pre.owner
        /\ transfer.amount > 0
        /\ balance = 0

====
